---------------------------- MODULE Spec2Model ----------------------------
(***************************************************************************)
(* A model of the client-side scripts of the portfolio site.               *)
(*                                                                         *)
(* Portfolio modal controller (src/public/scripts/portfolio.js): a static  *)
(* lookup table keyed by project title, one shared overlay element whose   *)
(* slots are filled from the table, and the event listeners that open and  *)
(* close it.  The page markup is an external collaborator: the model has   *)
(* one portfolio entry per title of EntryTitles.                           *)
(***************************************************************************)
EXTENDS Naturals, Integers, Sequences, FiniteSets, TLC

VARIABLES
    modalImage,        \* modal-image element: [src, alt] content attributes
    modalTitle,        \* modal-title textContent
    modalDescription,  \* modal-description textContent
    modalDetails,      \* modal-details textContent
    modalClassList,    \* modal.classList, a set of class names
    bodyOverflow,      \* document.body.style.overflow
    activeElement,     \* document.activeElement (the element holding focus)
    lastEvent,         \* the event dispatched last
    prevEvent,         \* the event dispatched before it
    email,             \* the argument of a validateEmail call
    emailResult,       \* what the call returned
    requiredValue,     \* the argument of a validateRequired call
    requiredResult,    \* what the call returned
    formFields,        \* the contact form's fields, in document order
    fieldValue,        \* field.value of each field
    groupState,        \* each field's .form-group: class list and message text
    formEvent,         \* the form event handled (or function called) last
    sections,          \* the section[id] elements: id, offsetTop, offsetHeight
    navMenuClassList,  \* navMenu.classList
    ariaExpanded,      \* navToggle's aria-expanded attribute
    activeLinks,       \* the nav links (by href) whose class list has 'active'
    scrollY,           \* window.scrollY
    scrollRequest,     \* the window.scrollTo call whose scroll is under way
    scrollTimeout,     \* the scroll listener's scrollTimeout (0: undefined)
    pendingFrames,     \* ids of the animation-frame callbacks still pending
    navEvent           \* the navigation event handled last

modalVars == <<modalImage, modalTitle, modalDescription, modalDetails,
               modalClassList, bodyOverflow, activeElement, lastEvent, prevEvent>>

emailVars == <<email, emailResult>>

requiredVars == <<requiredValue, requiredResult>>

formVars == <<formFields, fieldValue, groupState, formEvent>>

navVars == <<sections, navMenuClassList, ariaExpanded, activeLinks, scrollY, scrollRequest,
             scrollTimeout, pendingFrames, navEvent>>

vars == <<modalVars, emailVars, requiredVars, formVars, navVars>>

(***************************************************************************)
(* JavaScript values.  A property read yields a string or undefined; the   *)
(* DOM setters convert what they are given.                                *)
(***************************************************************************)
Undefined == [type |-> "undefined"]

Str(s) == [type |-> "string", value |-> s]

\* obj.field for an object held as a record of its own string properties
Get(obj, field) ==
    IF field \in DOMAIN obj THEN Str(obj[field]) ELSE Undefined

\* WebIDL DOMString conversion (img.src, img.alt): ToString(value)
ToDOMString(v) ==
    IF v.type = "undefined" THEN "undefined" ELSE v.value

\* WebIDL DOMString? conversion (textContent): null and undefined clear the text
ToNullableDOMString(v) ==
    IF v.type = "undefined" THEN "" ELSE v.value

(***************************************************************************)
(* The static record mapping.                                              *)
(***************************************************************************)
portfolioData_TitleMismatch ==
    [t \in {"Project One", "Project Two", "Project Three"} |->
        [image |-> "images/project.jpg",
         imageAlt |-> "Screenshot",
         title |-> IF t = "Project Two" THEN "Project 2" ELSE t,
         description |-> "d",
         detailedDescription |-> "D"]]

portfolioData ==
    "Project One" :> [
        image |-> "images/project1.jpg",
        imageAlt |-> "Screenshot of Project 1",
        title |-> "Project One",
        description |-> "A responsive web application built with modern technologies.",
        detailedDescription |-> "This project showcases a fully responsive web application that adapts seamlessly to different screen sizes. Built using HTML5, CSS3, and JavaScript, it features smooth animations, intuitive navigation, and optimized performance. The application demonstrates best practices in web development including semantic HTML, accessibility features, and clean code architecture."]
    @@ "Project Two" :> [
        image |-> "images/project2.jpg",
        imageAlt |-> "Screenshot of Project 2",
        title |-> "Project Two",
        description |-> "An interactive website featuring smooth animations and user-friendly design.",
        detailedDescription |-> "An engaging interactive website that combines beautiful design with functional user experience. Features include scroll-triggered animations, dynamic content loading, and responsive layouts. The project emphasizes user engagement through thoughtful interactions and visual feedback, creating an immersive browsing experience."]
    @@ "Project Three" :> [
        image |-> "images/project3.jpg",
        imageAlt |-> "Screenshot of Project 3",
        title |-> "Project Three",
        description |-> "A portfolio website showcasing creative work and design skills.",
        detailedDescription |-> "A comprehensive portfolio website designed to showcase creative work and professional achievements. The site features a clean, modern design with emphasis on visual presentation. Includes project galleries, detailed case studies, and contact integration. Built with performance and accessibility in mind, ensuring fast load times and compatibility across all devices."]

\* portfolioData is an object literal: besides its own keys, a property read
\* finds the members it inherits from Object.prototype.  Each is an object
\* (a function with its name, or for __proto__ the prototype itself, which
\* has no name) with none of the record fields.
ObjectPrototypeMembers ==
    "constructor" :> [name |-> "Object"]
    @@ "toString" :> [name |-> "toString"]
    @@ "hasOwnProperty" :> [name |-> "hasOwnProperty"]
    @@ "valueOf" :> [name |-> "valueOf"]
    @@ "toLocaleString" :> [name |-> "toLocaleString"]
    @@ "isPrototypeOf" :> [name |-> "isPrototypeOf"]
    @@ "propertyIsEnumerable" :> [name |-> "propertyIsEnumerable"]
    @@ "__defineGetter__" :> [name |-> "__defineGetter__"]
    @@ "__defineSetter__" :> [name |-> "__defineSetter__"]
    @@ "__lookupGetter__" :> [name |-> "__lookupGetter__"]
    @@ "__lookupSetter__" :> [name |-> "__lookupSetter__"]
    @@ "__proto__" :> [member \in {} |-> ""]

\* The titles the page's portfolio entries display (.portfolio-title text):
\* the three projects, a title with no record, the empty title, and two
\* titles that name an inherited member of the object literal.
EntryTitles ==
    DOMAIN portfolioData \cup {"Unknown Project", "", "constructor", "__proto__"}

\* portfolioData[projectTitle]: [found |-> truthiness, obj |-> the value]
Lookup(projectTitle) ==
    IF projectTitle \in DOMAIN portfolioData
    THEN [found |-> TRUE, obj |-> portfolioData[projectTitle]]
    ELSE IF projectTitle \in DOMAIN ObjectPrototypeMembers
    THEN [found |-> TRUE, obj |-> ObjectPrototypeMembers[projectTitle]]
    ELSE [found |-> FALSE, obj |-> [name |-> "undefined"]]

(***************************************************************************)
(* The DOM state the script reads and writes, as one record.               *)
(***************************************************************************)
Dom ==
    [imageSrc |-> modalImage.src,
     imageAlt |-> modalImage.alt,
     title |-> modalTitle,
     description |-> modalDescription,
     details |-> modalDetails,
     classList |-> modalClassList,
     overflow |-> bodyOverflow,
     activeElement |-> activeElement]

\* the same record with the variables of the next state
DomNext ==
    [imageSrc |-> modalImage'.src,
     imageAlt |-> modalImage'.alt,
     title |-> modalTitle',
     description |-> modalDescription',
     details |-> modalDetails',
     classList |-> modalClassList',
     overflow |-> bodyOverflow',
     activeElement |-> activeElement']

SetDom(d) ==
    /\ modalImage' = [src |-> d.imageSrc, alt |-> d.imageAlt]
    /\ modalTitle' = d.title
    /\ modalDescription' = d.description
    /\ modalDetails' = d.details
    /\ modalClassList' = d.classList
    /\ bodyOverflow' = d.overflow
    /\ activeElement' = d.activeElement

IsActive(d) == "active" \in d.classList

(***************************************************************************)
(* openPortfolioModal(item): item is identified by the title it displays.  *)
(***************************************************************************)
openPortfolioModal_Toggle(d, item) ==
    IF Lookup(item).found
    THEN LET projectData == Lookup(item).obj IN
         [imageSrc |-> ToDOMString(Get(projectData, "image")),
          imageAlt |-> ToDOMString(Get(projectData, "imageAlt")),
          title |-> ToNullableDOMString(Get(projectData, "title")),
          description |-> ToNullableDOMString(Get(projectData, "description")),
          details |-> ToNullableDOMString(Get(projectData, "detailedDescription")),
          classList |-> IF "active" \in d.classList
                        THEN d.classList \ {"active"}
                        ELSE d.classList \cup {"active"},
          overflow |-> "hidden",
          activeElement |-> "modalClose"]
    ELSE d

openPortfolioModal_NoFocus(d, item) ==
    IF Lookup(item).found
    THEN LET projectData == Lookup(item).obj IN
         [imageSrc |-> ToDOMString(Get(projectData, "image")),
          imageAlt |-> ToDOMString(Get(projectData, "imageAlt")),
          title |-> ToNullableDOMString(Get(projectData, "title")),
          description |-> ToNullableDOMString(Get(projectData, "description")),
          details |-> ToNullableDOMString(Get(projectData, "detailedDescription")),
          classList |-> d.classList \cup {"active"},
          overflow |-> "hidden",
          activeElement |-> d.activeElement]
    ELSE d

openPortfolioModal(d, item) ==
    IF Lookup(item).found
    THEN LET projectData == Lookup(item).obj IN
         [imageSrc |-> ToDOMString(Get(projectData, "image")),
          imageAlt |-> ToDOMString(Get(projectData, "imageAlt")),
          title |-> ToNullableDOMString(Get(projectData, "title")),
          description |-> ToNullableDOMString(Get(projectData, "description")),
          details |-> ToNullableDOMString(Get(projectData, "detailedDescription")),
          classList |-> d.classList \cup {"active"},
          overflow |-> "hidden",
          activeElement |-> "modalClose"]
    ELSE d

(***************************************************************************)
(* closeModal()                                                            *)
(***************************************************************************)
\* document.querySelector('.portfolio-item:focus')
FocusedItem(d) ==
    IF d.activeElement \in EntryTitles THEN {d.activeElement} ELSE {}

closeModal_LeavesOverflow(d) ==
    [d EXCEPT !.classList = @ \ {"active"}]

closeModal_LeavesClass(d) ==
    [d EXCEPT !.overflow = ""]

closeModal(d) ==
    LET closed == [d EXCEPT !.classList = @ \ {"active"}, !.overflow = ""]
    IN  IF FocusedItem(d) # {}
        THEN [closed EXCEPT !.activeElement = CHOOSE x \in FocusedItem(d) : TRUE]
        ELSE closed

(***************************************************************************)
(* Event listeners, as functions from the DOM state to the DOM state.      *)
(***************************************************************************)
Keys == {"Enter", " ", "Escape", "Tab", "a"}

\* e.key === 'Enter' || e.key === ' '
IsActivationKey_EnterOnly(key) == key = "Enter"

IsActivationKey(key) == key = "Enter" \/ key = " "

\* e.key === 'Escape'
IsEscapeKey_Esc(key) == key = "Esc"

IsEscapeKey(key) == key = "Escape"

\* e.target === modal
IsBackdropTarget_Any(target) == TRUE

IsBackdropTarget(target) == target = "modal"

\* item 'click' listener
OnItemClick(d, item) == openPortfolioModal(d, item)

\* item 'keydown' listener
OnItemKeydown(d, item, key) ==
    IF IsActivationKey(key) THEN openPortfolioModal(d, item) ELSE d

\* document 'keydown' listener
OnDocumentKeydown(d, key) ==
    IF IsEscapeKey(key) /\ IsActive(d) THEN closeModal(d) ELSE d

\* modalClose 'click' listener
OnCloseClick(d) == closeModal(d)

\* modal 'click' listener
OnModalClick(d, target) ==
    IF IsBackdropTarget(target) THEN closeModal(d) ELSE d

\* which of open / close a keydown ends up calling
KeydownCall(d, onItem, key) ==
    IF onItem /\ IsActivationKey(key) THEN "openPortfolioModal"
    ELSE IF IsEscapeKey(key) /\ IsActive(d) THEN "closeModal"
    ELSE "none"

Event(type, target, key, call) ==
    [type |-> type, target |-> target, key |-> key, call |-> call]

NoEvent == Event("none", "none", "none", "none")

\* a call that has not returned yet / that returned value
NotReturned == [returned |-> FALSE, value |-> FALSE]

Returned(value) == [returned |-> TRUE, value |-> value]

\* type: the event; field: its target (0 for the form); valid: what the
\* validation it ran returned; errorBefore: whether the target's group (for
\* the form: some group) had the error marker when the handler started
NavEvent(type, target) == [type |-> type, target |-> target]

\* a scroll event on the window; cancelled: the callback requested by an
\* earlier scroll event was still pending and has been cancelled
\* a click on a nav link, after its two listeners ran
LinkClickEvent(link, defaultPrevented) ==
    [type |-> "click", target |-> link, defaultPrevented |-> defaultPrevented]

\* window.scrollTo({top: top, behavior: 'smooth'})
ScrollTo(top) == [pending |-> TRUE, top |-> top, behavior |-> "smooth"]

\* no scroll requested by the script is under way
NoScrollRequest == [pending |-> FALSE, top |-> 0, behavior |-> "auto"]

ScrollNavEvent(cancelled) ==
    [type |-> "scroll", target |-> "window", cancelled |-> cancelled]

\* offsetHeight of .navbar and of every section, as the page lays them out
NavbarHeight == 60

SectionHeight == 800

\* section.offsetTop - navbarHeight - 100
HighlightLead == 100

\* scrollPosition < 100
TopThreshold == 100

\* section[id] elements in document order, stacked from the top of the page
SectionIds == <<"home", "about", "portfolio", "contact">>

Sections ==
    [k \in DOMAIN SectionIds |->
        [id |-> SectionIds[k],
         offsetTop |-> (k - 1) * SectionHeight,
         offsetHeight |-> SectionHeight]]

\* offsetTop of the k-th of sections stacked with the given heights
RECURSIVE OffsetTop(_, _)
OffsetTop(heights, k) ==
    IF k = 1 THEN 0 ELSE OffsetTop(heights, k - 1) + heights[k - 1]

\* the heights a section may have: a short one and the full one
SectionHeights == {200, SectionHeight}

\* the page layouts: the sections stacked from the top, each of any height
Layouts ==
    {[k \in DOMAIN SectionIds |->
         [id |-> SectionIds[k],
          offsetTop |-> OffsetTop(heights, k),
          offsetHeight |-> heights[k]]] :
       heights \in [DOMAIN SectionIds -> SectionHeights]}

\* .nav-link elements.  A link whose href is "#id" is named id: the links of
\* the four sections and one to an id no section has; a link whose href does
\* not start with '#' is named by its href.
ExternalLinks == {"blog.html"}

NavLinks == {"home", "about", "portfolio", "contact", "gallery"} \cup ExternalLinks

\* href && href.startsWith('#')
HrefStartsWithHash(link) == link \notin ExternalLinks

\* document.getElementById(href.substring(1)): the sections found
TargetSections(link) == {k \in DOMAIN sections : sections[k].id = link}

\* the position the window ends at when asked to scroll to top: a position
\* above the page is the top of the page
ClampedTop(top) == IF top < 0 THEN 0 ELSE top

\* document.querySelector('.nav-link[href="#id"]'): the links found
LinkFor(id) == {link \in NavLinks : link = id}

\* the sections.forEach loop of highlightActiveSection, from the k-th
\* section on: the set of links that carry 'active'
HighlightFrom_NoRemove(k, scrollPosition, active) ==
    active \cup UNION {LinkFor(sections[n].id) :
                          n \in {m \in k..Len(sections) :
                                   LET sectionTop == sections[m].offsetTop - NavbarHeight - HighlightLead
                                   IN  /\ scrollPosition >= sectionTop
                                       /\ scrollPosition < sectionTop + sections[m].offsetHeight}}

HighlightFrom_NoLead(k, scrollPosition, active) ==
    LET hit == {m \in k..Len(sections) :
                   /\ scrollPosition >= sections[m].offsetTop - NavbarHeight
                   /\ scrollPosition < sections[m].offsetTop - NavbarHeight
                                          + sections[m].offsetHeight}
    IN  IF hit = {} THEN active
        ELSE LinkFor(sections[CHOOSE m \in hit : \A n \in hit : n <= m].id)

RECURSIVE HighlightFrom(_, _, _)
HighlightFrom(k, scrollPosition, active) ==
    IF k > Len(sections)
    THEN active
    ELSE LET sectionTop == sections[k].offsetTop - NavbarHeight - HighlightLead
             sectionBottom == sectionTop + sections[k].offsetHeight
         IN  IF scrollPosition >= sectionTop /\ scrollPosition < sectionBottom
             THEN HighlightFrom(k + 1, scrollPosition, LinkFor(sections[k].id))
             ELSE HighlightFrom(k + 1, scrollPosition, active)

highlightActiveSection_NoTopCase(scrollPosition, active) ==
    HighlightFrom(1, scrollPosition, active)

highlightActiveSection(scrollPosition, active) ==
    LET afterLoop == HighlightFrom(1, scrollPosition, active) IN
    IF scrollPosition < TopThreshold THEN LinkFor("home") ELSE afterLoop

\* the page as loaded: menu closed, the initial highlight done at the top
NavInit ==
    /\ sections = Sections
    /\ navMenuClassList = {"nav-menu"}
    /\ ariaExpanded = "false"
    /\ activeLinks = highlightActiveSection(0, {})
    /\ scrollY = 0
    /\ scrollRequest = NoScrollRequest
    /\ scrollTimeout = 0
    /\ pendingFrames = {}
    /\ navEvent = NavEvent("none", "none")

FormEvent(type, field, valid, errorBefore) ==
    [type |-> type, field |-> field, valid |-> valid, errorBefore |-> errorBefore]

NoFormEvent == FormEvent("none", 0, TRUE, FALSE)

\* a page without a contact form (the script returns at once)
FormIdle ==
    /\ formFields = <<>>
    /\ fieldValue = <<>>
    /\ groupState = <<>>
    /\ formEvent = NoFormEvent

\* no validateEmail call is in progress
EmailIdle ==
    /\ email = <<>>
    /\ emailResult = NotReturned

RequiredIdle ==
    /\ requiredValue = <<>>
    /\ requiredResult = NotReturned

(***************************************************************************)
(* Initial state: the overlay is hidden and its slots are empty.           *)
(***************************************************************************)
ModalInit ==
    /\ modalImage = [src |-> "", alt |-> ""]
    /\ modalTitle = ""
    /\ modalDescription = ""
    /\ modalDetails = ""
    /\ modalClassList = {}
    /\ bodyOverflow = ""
    /\ activeElement = "body"
    /\ lastEvent = NoEvent
    /\ prevEvent = NoEvent

(***************************************************************************)
(* Properties of the portfolio modal controller.                           *)
(***************************************************************************)
\* the event called openPortfolioModal on an entry whose lookup finds a value
OpensFound(e) ==
    e.call = "openPortfolioModal" /\ Lookup(e.target).found

\* the overlay's five slots show the record stored under title t
ShowsRecord(t) ==
    /\ modalImage.src = portfolioData[t].image
    /\ modalImage.alt = portfolioData[t].imageAlt
    /\ modalTitle = portfolioData[t].title
    /\ modalDescription = portfolioData[t].description
    /\ modalDetails = portfolioData[t].detailedDescription

\* C1: in every reachable state page scrolling is suppressed (body overflow
\* 'hidden') exactly when the overlay is active; close followed immediately
\* by open leaves the overlay active with scroll suppressed, and open
\* followed by close leaves it inactive with scroll restored.
ScrollSuppressedIffActive ==
    /\ (bodyOverflow = "hidden") <=> IsActive(Dom)
    /\ bodyOverflow \in {"", "hidden"}
    /\ (prevEvent.call = "closeModal" /\ OpensFound(lastEvent))
          => (IsActive(Dom) /\ bodyOverflow = "hidden")
    /\ (OpensFound(prevEvent) /\ lastEvent.call = "closeModal")
          => (~IsActive(Dom) /\ bodyOverflow = "")

\* a close immediately followed by an open that shows the overlay
CloseThenOpenReached ==
    /\ prevEvent.call = "closeModal"
    /\ OpensFound(lastEvent)
    /\ IsActive(Dom)
    /\ bodyOverflow = "hidden"

\* C2: open(title) for a title present in the record mapping sets the
\* overlay's image source and alt, title, short and long description to that
\* record's fields, makes the overlay active, suppresses page scrolling and
\* moves keyboard focus to the close control.
OpenPopulatesOverlay ==
    \A t \in {"Project One", "Project Two", "Project Three"} :
        (lastEvent.call = "openPortfolioModal" /\ lastEvent.target = t)
            => /\ ShowsRecord(t)
               /\ IsActive(Dom)
               /\ bodyOverflow = "hidden"
               /\ activeElement = "modalClose"

\* an entry that held focus was opened with the keyboard
OpenedProjectTwoReached ==
    /\ lastEvent = Event("keydown", "Project Two", "Enter", "openPortfolioModal")
    /\ prevEvent = Event("focus", "Project Two", "none", "none")
    /\ modalImage = [src |-> "images/project2.jpg", alt |-> "Screenshot of Project 2"]
    /\ activeElement = "modalClose"

\* C3: for every title that is not a key of the record mapping, open(title)
\* is a silent no-op: content fields, active flag, scroll-suppression flag
\* and keyboard focus are all unchanged.
LookupMissIsNoOp ==
    [][(/\ lastEvent'.call = "openPortfolioModal"
        /\ lastEvent'.target \notin {"Project One", "Project Two", "Project Three"})
           => DomNext = Dom]_vars

\* C4: close() from any state sets the overlay to inactive and clears the
\* scroll-suppression flag, whichever trigger invoked it and whichever entry
\* opened the overlay.
CloseHidesAndRestoresScroll ==
    lastEvent.call = "closeModal"
        => (~IsActive(Dom) /\ bodyOverflow = "" /\ modalClassList = {})

\* the overlay opened from an entry was closed with the close control
ClosedAfterOpenReached ==
    /\ lastEvent = Event("click", "modalClose", "none", "closeModal")
    /\ prevEvent = Event("click", "Project Three", "none", "openPortfolioModal")
    /\ modalTitle = "Project Three"
    /\ ~IsActive(Dom)

\* C5 as claimed: Enter or Space on a focused entry leads to the same state
\* as a click on that entry, and any other key pressed on an entry changes
\* nothing.
KeyboardEquivalentToPointer ==
    [][(/\ lastEvent'.type = "keydown"
        /\ lastEvent'.target \in EntryTitles
        /\ activeElement = lastEvent'.target)
           => IF lastEvent'.key \in {"Enter", " "}
              THEN DomNext = OnItemClick(Dom, lastEvent'.target)
              ELSE DomNext = Dom]_vars

\* C5 as amended: Enter or Space on a focused entry leads to the same state
\* as a click on that entry; Escape on an entry closes the overlay when it
\* is active and changes nothing otherwise; any other key changes nothing.
KeyboardActivationAmended ==
    [][(/\ lastEvent'.type = "keydown"
        /\ lastEvent'.target \in EntryTitles
        /\ activeElement = lastEvent'.target)
           => IF lastEvent'.key \in {"Enter", " "}
              THEN DomNext = OnItemClick(Dom, lastEvent'.target)
              ELSE IF lastEvent'.key = "Escape" /\ IsActive(Dom)
              THEN DomNext = [Dom EXCEPT !.classList = @ \ {"active"},
                                         !.overflow = ""]
              ELSE DomNext = Dom]_vars

\* Space on a focused entry opened the overlay
SpaceOpenedReached ==
    /\ lastEvent = Event("keydown", "Project One", " ", "openPortfolioModal")
    /\ prevEvent = Event("focus", "Project One", "none", "none")
    /\ IsActive(Dom)
    /\ modalTitle = "Project One"
    /\ activeElement = "modalClose"

\* C6: an Escape key press closes the overlay (inactive, scroll restored)
\* when the overlay is active, and changes no modal or scroll state when it
\* is inactive.
EscapeClosesOnlyWhenActive ==
    [][(lastEvent'.type = "keydown" /\ lastEvent'.key = "Escape")
           => IF IsActive(Dom)
              THEN ~IsActive(DomNext) /\ bodyOverflow' = ""
              ELSE DomNext = Dom]_vars

\* Escape closed an overlay that an entry had opened
EscapeClosedReached ==
    /\ lastEvent = Event("keydown", "document", "Escape", "closeModal")
    /\ OpensFound(prevEvent)
    /\ ~IsActive(Dom)
    /\ bodyOverflow = ""

\* C7: a click on the overlay closes it if and only if the event target is
\* the backdrop element itself; a click on content nested inside the overlay
\* leaves the overlay active and scroll suppressed.
BackdropClickCloses ==
    [][(lastEvent'.type = "click" /\ lastEvent'.target \in {"modal", "modalContent"})
           => IF lastEvent'.target = "modal"
              THEN ~IsActive(DomNext) /\ bodyOverflow' = ""
              ELSE DomNext = Dom]_vars

\* a click on nested content found the overlay active and left it so
ContentClickReached ==
    /\ lastEvent = Event("click", "modalContent", "none", "none")
    /\ OpensFound(prevEvent)
    /\ IsActive(Dom)
    /\ bodyOverflow = "hidden"

\* C8: open is idempotent: for every title, calling open(title) twice in a
\* row leaves the overlay (content, active flag, scroll suppression, focus)
\* in the same state as calling it once.
OpenIdempotent ==
    [][(/\ lastEvent.call = "openPortfolioModal"
        /\ lastEvent'.call = "openPortfolioModal"
        /\ lastEvent'.target = lastEvent.target)
           => DomNext = Dom]_vars

\* the same entry was opened twice in a row
OpenedTwiceReached ==
    /\ lastEvent.call = "openPortfolioModal"
    /\ prevEvent.call = "openPortfolioModal"
    /\ lastEvent.target = "Project Two"
    /\ prevEvent.target = "Project Two"
    /\ prevEvent.type # lastEvent.type
    /\ IsActive(Dom)
    /\ modalTitle = "Project Two"

\* C9: activating entry B while the overlay shows entry A leaves one active
\* overlay whose five fields come from B's record, and whenever the overlay
\* is active its five displayed fields all belong to one and the same record.
ActiveOverlayShowsOneRecord ==
    /\ IsActive(Dom)
          => \E t \in {"Project One", "Project Two", "Project Three"} : ShowsRecord(t)
    /\ \A b \in {"Project One", "Project Two", "Project Three"} :
          (lastEvent.call = "openPortfolioModal" /\ lastEvent.target = b)
              => (IsActive(Dom) /\ ShowsRecord(b))

\* C10: opening the overlay from an entry whose displayed title T is in the
\* record mapping sets the overlay's title text to exactly T (every record's
\* title field equals its lookup key), and the overlay becomes active.
TitleTextIsEntryTitle ==
    /\ \A k \in DOMAIN portfolioData : portfolioData[k].title = k
    /\ \A T \in DOMAIN portfolioData :
          (lastEvent.call = "openPortfolioModal" /\ lastEvent.target = T)
              => (modalTitle = T /\ IsActive(Dom))

\* the entry titled "Project One" was clicked while the overlay was closed
ProjectOneTitleReached ==
    /\ lastEvent = Event("click", "Project One", "none", "openPortfolioModal")
    /\ prevEvent.call # "openPortfolioModal"
    /\ modalTitle = "Project One"
    /\ IsActive(Dom)


(***************************************************************************)
(* Form validator (src/unnamed/part_003).  A string is a sequence of       *)
(* one-character strings.                                                  *)
(***************************************************************************)
MaxLen == 6

\* the characters strings are built from: ordinary characters, the dot, the
\* at sign and three whitespace characters (space, no-break space, em space)
Chars == {"a", "-", ".", "@", " ", "U+00A0", "U+2003"}

StringsUpTo(n) == UNION {[1..k -> Chars] : k \in 0..n}

\* the regular expression class \s, which is also what String.prototype.trim
\* strips: the 25 ECMAScript WhiteSpace and LineTerminator characters.  An
\* ASCII character is the one-character string itself; a character outside
\* ASCII is the string "U+" followed by its four-digit code point.
IsWhitespace(c) ==
    c \in {" ", "\t", "\n", "\r", "\f", "",
           "U+00A0", "U+1680", "U+2000", "U+2001", "U+2002", "U+2003",
           "U+2004", "U+2005", "U+2006", "U+2007", "U+2008", "U+2009",
           "U+200A", "U+2028", "U+2029", "U+202F", "U+205F", "U+3000",
           "U+FEFF"}

\* regular expression tokens: X+ for a negated character class X, and a
\* literal character
NotInPlus(excluded, noWhitespace) ==
    [kind |-> "plus", excluded |-> excluded, noWhitespace |-> noWhitespace]

Literal(c) == [kind |-> "char", c |-> c]

InClass(tok, c) ==
    /\ c \notin tok.excluded
    /\ tok.noWhitespace => ~IsWhitespace(c)

\* /^[^\s]+@[^\s]+\.[^\s]+$/
emailRegex_AllowsAt ==
    [startAnchor |-> TRUE, endAnchor |-> TRUE,
     tokens |-> <<NotInPlus({}, TRUE), Literal("@"),
                  NotInPlus({}, TRUE), Literal("."),
                  NotInPlus({}, TRUE)>>]

\* /^[^\s@]+@[^\s@.]+\.[^\s@]+$/
emailRegex_NoDotInDomain ==
    [startAnchor |-> TRUE, endAnchor |-> TRUE,
     tokens |-> <<NotInPlus({"@"}, TRUE), Literal("@"),
                  NotInPlus({"@", "."}, TRUE), Literal("."),
                  NotInPlus({"@"}, TRUE)>>]

\* /^[^\s@]+@[^\s@]+\.[^\s@]+/
emailRegex_NoEndAnchor ==
    [startAnchor |-> TRUE, endAnchor |-> FALSE,
     tokens |-> <<NotInPlus({"@"}, TRUE), Literal("@"),
                  NotInPlus({"@"}, TRUE), Literal("."),
                  NotInPlus({"@"}, TRUE)>>]

\* /^[^\s@]+@[^\s@]+\.[^\s@]+$/
emailRegex ==
    [startAnchor |-> TRUE, endAnchor |-> TRUE,
     tokens |-> <<NotInPlus({"@"}, TRUE), Literal("@"),
                  NotInPlus({"@"}, TRUE), Literal("."),
                  NotInPlus({"@"}, TRUE)>>]

\* the tokens from the k-th on match s from position i on (backtracking
\* over the lengths a + may take), up to the end of s when anchored there
RECURSIVE MatchHere(_, _, _, _)
MatchHere(re, s, k, i) ==
    IF k > Len(re.tokens)
    THEN re.endAnchor => i = Len(s) + 1
    ELSE LET tok == re.tokens[k] IN
         IF tok.kind = "char"
         THEN /\ i <= Len(s)
              /\ s[i] = tok.c
              /\ MatchHere(re, s, k + 1, i + 1)
         ELSE \E n \in 1..(Len(s) - i + 1) :
                 /\ \A m \in i..(i + n - 1) : InClass(tok, s[m])
                 /\ MatchHere(re, s, k + 1, i + n)

\* RegExp.prototype.test
RegexTest(re, s) ==
    \E start \in (IF re.startAnchor THEN {1} ELSE 1..(Len(s) + 1)) :
        MatchHere(re, s, 1, start)

validateEmail(value) == RegexTest(emailRegex, value)

(***************************************************************************)
(* validateEmail applied to every string of at most MaxLen characters.     *)
(***************************************************************************)
EmailInit ==
    /\ ModalInit
    /\ RequiredIdle
    /\ FormIdle
    /\ NavInit
    /\ email \in StringsUpTo(MaxLen)
    /\ emailResult = NotReturned

ValidateEmailCall ==
    /\ ~emailResult.returned
    /\ emailResult' = Returned(validateEmail(email))
    /\ UNCHANGED <<email, requiredVars, modalVars, formVars, navVars>>

EmailNext == ValidateEmailCall

EmailSpec == EmailInit /\ [][EmailNext]_vars

(***************************************************************************)
(* Properties of validateEmail.                                            *)
(***************************************************************************)
Count(s, c) == Cardinality({i \in 1..Len(s) : s[i] = c})

HasWhitespace(s) == \E i \in 1..Len(s) : IsWhitespace(s[i])

\* the position of the at sign of a string that has one
AtPosition(s) == CHOOSE i \in 1..Len(s) : s[i] = "@"

\* C18: validateEmail(s) is false for every string s that contains no '@',
\* or two or more '@', or any whitespace character, or has no '.' after its
\* single '@' (including the empty string).
EmailRejectsMalformed ==
    (/\ emailResult.returned
     /\ \/ Count(email, "@") = 0
        \/ Count(email, "@") >= 2
        \/ HasWhitespace(email)
        \/ /\ Count(email, "@") = 1
           /\ ~\E j \in (AtPosition(email) + 1)..Len(email) : email[j] = ".")
        => emailResult.value = FALSE

\* a string with two at signs and otherwise the right shape was rejected
TwoAtSignsRejected ==
    /\ email = <<"a", "@", "@", "a", ".", "a">>
    /\ emailResult = Returned(FALSE)

\* C19: validateEmail(s) is true for every string local@domain.tld in which
\* local, domain and tld are each non-empty and contain no whitespace and no
\* '@' (dots and hyphens inside the parts are accepted).
EmailAcceptsLocalDomainTld ==
    (/\ emailResult.returned
     /\ \E i, j \in 1..Len(email) :
           /\ 1 < i /\ i + 1 < j /\ j < Len(email)
           /\ email[i] = "@"
           /\ email[j] = "."
           /\ \A m \in 1..Len(email) :
                 m # i => (email[m] # "@" /\ ~IsWhitespace(email[m])))
        => emailResult.value = TRUE

\* an address with a hyphen and a dot inside its parts was accepted
DottedAddressAccepted ==
    /\ email = <<"-", "@", ".", ".", "a">>
    /\ emailResult = Returned(TRUE)

\* C20 as claimed: validateEmail(s) is true if and only if s contains
\* exactly one '@', at least one '.' after that '@', and no whitespace.
EmailValidIffOneAtAndDot ==
    emailResult.returned
        => (emailResult.value
              <=> /\ Count(email, "@") = 1
                  /\ ~HasWhitespace(email)
                  /\ \E j \in (AtPosition(email) + 1)..Len(email) : email[j] = ".")

\* C20 as amended: validateEmail(s) is true if and only if s contains
\* exactly one '@', no whitespace, at least one character before the '@',
\* and a '.' after the '@' that has at least one character between the '@'
\* and itself and at least one character after itself.
EmailValidIffShape ==
    emailResult.returned
        => (emailResult.value
              <=> /\ Count(email, "@") = 1
                  /\ ~HasWhitespace(email)
                  /\ AtPosition(email) > 1
                  /\ \E j \in (AtPosition(email) + 2)..(Len(email) - 1) :
                        email[j] = ".")

\* a string with one at sign and a dot after it, but nothing before the at
\* sign, was rejected
EmptyLocalPartRejected ==
    /\ email = <<"@", "a", ".", "a">>
    /\ emailResult = Returned(FALSE)


(***************************************************************************)
(* validateRequired, showError, clearError, validateField, validateForm.   *)
(***************************************************************************)
\* String.prototype.trim: the string without its leading and trailing
\* whitespace
RECURSIVE TrimStart(_)
TrimStart(s) ==
    IF s # <<>> /\ IsWhitespace(Head(s)) THEN TrimStart(Tail(s)) ELSE s

RECURSIVE TrimEnd(_)
TrimEnd(s) ==
    IF s # <<>> /\ IsWhitespace(s[Len(s)])
    THEN TrimEnd(SubSeq(s, 1, Len(s) - 1))
    ELSE s

Trim(s) == TrimEnd(TrimStart(s))

validateRequired_NoTrim(value) == Len(value) > 0

validateRequired(value) == Len(Trim(value)) > 0

RequiredMessage == "This field is required"

EmailMessage == "Please enter a valid email address"

\* a .form-group with no error shown
PristineGroup == [classList |-> {"form-group"}, message |-> ""]

showError_NoMarker(formGroup, message) ==
    [classList |-> formGroup.classList, message |-> message]

showError(formGroup, message) ==
    [classList |-> formGroup.classList \cup {"error"}, message |-> message]

clearError_KeepsMessage(formGroup) ==
    [classList |-> formGroup.classList \ {"error"}, message |-> formGroup.message]

clearError(formGroup) ==
    [classList |-> formGroup.classList \ {"error"}, message |-> ""]

\* the kinds of field: the required attribute and field.type
FieldKinds == [required : BOOLEAN, type : {"text", "email", "textarea"}]

\* validateField(field): [valid |-> the value returned, group |-> the
\* field's group afterwards]
validateField_EmailFirst(field, value, formGroup) ==
    LET cleared == clearError(formGroup) IN
    IF field.type = "email" /\ Len(Trim(value)) > 0 /\ ~validateEmail(value)
    THEN [valid |-> FALSE, group |-> showError(cleared, EmailMessage)]
    ELSE IF field.type = "email" /\ ~validateRequired(value)
    THEN [valid |-> FALSE, group |-> showError(cleared, EmailMessage)]
    ELSE IF field.required /\ ~validateRequired(value)
    THEN [valid |-> FALSE, group |-> showError(cleared, RequiredMessage)]
    ELSE [valid |-> TRUE, group |-> cleared]

validateField_EmailOnlyIfRequired(field, value, formGroup) ==
    LET cleared == clearError(formGroup) IN
    IF field.required /\ ~validateRequired(value)
    THEN [valid |-> FALSE, group |-> showError(cleared, RequiredMessage)]
    ELSE IF field.type = "email" /\ field.required /\ ~validateEmail(value)
    THEN [valid |-> FALSE, group |-> showError(cleared, EmailMessage)]
    ELSE [valid |-> TRUE, group |-> cleared]

validateField_EmailWhenBlank(field, value, formGroup) ==
    LET cleared == clearError(formGroup) IN
    IF field.required /\ ~validateRequired(value)
    THEN [valid |-> FALSE, group |-> showError(cleared, RequiredMessage)]
    ELSE IF field.type = "email" /\ ~validateEmail(value)
    THEN [valid |-> FALSE, group |-> showError(cleared, EmailMessage)]
    ELSE [valid |-> TRUE, group |-> cleared]

validateField_NoClear(field, value, formGroup) ==
    IF field.required /\ ~validateRequired(value)
    THEN [valid |-> FALSE, group |-> showError(formGroup, RequiredMessage)]
    ELSE IF field.type = "email" /\ Len(Trim(value)) > 0 /\ ~validateEmail(value)
    THEN [valid |-> FALSE, group |-> showError(formGroup, EmailMessage)]
    ELSE [valid |-> TRUE, group |-> formGroup]

validateField(field, value, formGroup) ==
    LET cleared == clearError(formGroup) IN
    IF field.required /\ ~validateRequired(value)
    THEN [valid |-> FALSE, group |-> showError(cleared, RequiredMessage)]
    ELSE IF field.type = "email" /\ Len(Trim(value)) > 0 /\ ~validateEmail(value)
    THEN [valid |-> FALSE, group |-> showError(cleared, EmailMessage)]
    ELSE [valid |-> TRUE, group |-> cleared]

\* form.querySelectorAll('input[required], textarea[required],
\* input[type="email"]')
IsChecked(field) == field.required \/ field.type = "email"

\* validateForm(form): the fields from the k-th on, with isValid and the
\* groups as the earlier fields left them
RECURSIVE ValidateFrom_ShortCircuit(_, _, _, _, _)
ValidateFrom_ShortCircuit(fields, values, groups, k, isValid) ==
    IF k > Len(fields) \/ ~isValid
    THEN [valid |-> isValid, groups |-> groups]
    ELSE IF IsChecked(fields[k])
    THEN LET r == validateField(fields[k], values[k], groups[k]) IN
         ValidateFrom_ShortCircuit(fields, values, [groups EXCEPT ![k] = r.group],
                                   k + 1, isValid /\ r.valid)
    ELSE ValidateFrom_ShortCircuit(fields, values, groups, k + 1, isValid)

RECURSIVE ValidateFrom(_, _, _, _, _)
ValidateFrom(fields, values, groups, k, isValid) ==
    IF k > Len(fields)
    THEN [valid |-> isValid, groups |-> groups]
    ELSE IF IsChecked(fields[k])
    THEN LET r == validateField(fields[k], values[k], groups[k]) IN
         ValidateFrom(fields, values, [groups EXCEPT ![k] = r.group],
                      k + 1, isValid /\ r.valid)
    ELSE ValidateFrom(fields, values, groups, k + 1, isValid)

validateForm(fields, values, groups) ==
    ValidateFrom(fields, values, groups, 1, TRUE)

(***************************************************************************)
(* Form events.                                                            *)
(***************************************************************************)
\* the values field.value takes: empty, whitespace only, text that is no
\* address, an address, an address after a blank
FormValues ==
    {<<>>, <<" ">>, <<" ", "\t">>, <<"a">>, <<"a", "@", "a">>,
     <<"a", "@", "a", ".", "a">>, <<" ", "a", "@", "a", ".", "a">>}

\* the states a group is left in by showError and clearError
GroupStates ==
    {PristineGroup,
     showError(PristineGroup, RequiredMessage),
     showError(PristineGroup, EmailMessage)}

\* the blur listener of a field: it calls validateField
OnBlur(f) ==
    LET r == validateField(formFields[f], fieldValue[f], groupState[f]) IN
       /\ groupState' = [groupState EXCEPT ![f] = r.group]
       /\ formEvent' = FormEvent("blur", f, r.valid,
                                 "error" \in groupState[f].classList)
       /\ UNCHANGED <<formFields, fieldValue>>

\* a blur event dispatched on a field
Blur(f) ==
    /\ f \in DOMAIN formFields
    /\ OnBlur(f)
    /\ UNCHANGED <<modalVars, emailVars, requiredVars, navVars>>

\* a script assigns field.value (no event is dispatched)
SetValue(f, value) ==
    /\ f \in DOMAIN formFields
    /\ fieldValue[f] # value
    /\ fieldValue' = [fieldValue EXCEPT ![f] = value]
    /\ formEvent' = FormEvent("set", f, TRUE, FALSE)
    /\ UNCHANGED <<formFields, groupState, modalVars, emailVars, requiredVars, navVars>>

(***************************************************************************)
(* Actions of the overlay: one per dispatched event, running every         *)
(* listener it reaches.  A focus() call that takes focus away from a form  *)
(* field dispatches blur on that field before it returns, so the field's   *)
(* blur listener runs inside the same event.                               *)
(***************************************************************************)
\* the names document.activeElement takes when a form field has focus
FieldElements == <<"formField1", "formField2", "formField3">>

\* the form field that has focus, if one has
FocusedFields ==
    {f \in DOMAIN formFields \cap DOMAIN FieldElements :
        FieldElements[f] = activeElement}

\* focus moving off a form field runs that field's blur listener
FocusMoves ==
    IF activeElement' # activeElement /\ FocusedFields # {}
    THEN OnBlur(CHOOSE f \in FocusedFields : TRUE)
    ELSE UNCHANGED formVars

Record(e) ==
    /\ lastEvent' = e
    /\ prevEvent' = lastEvent
    /\ FocusMoves
    /\ UNCHANGED <<emailVars, requiredVars, navVars>>

\* click on a portfolio entry
ItemClick(item) ==
    /\ SetDom(OnItemClick(Dom, item))
    /\ Record(Event("click", item, "none", "openPortfolioModal"))

\* keydown on a portfolio entry: the entry's listener, then the document's
ItemKeydown(item, key) ==
    /\ SetDom(OnDocumentKeydown(OnItemKeydown(Dom, item, key), key))
    /\ Record(Event("keydown", item, key, KeydownCall(Dom, TRUE, key)))

\* click on the close control: its listener, then the overlay's
CloseClick ==
    /\ SetDom(OnModalClick(OnCloseClick(Dom), "modalClose"))
    /\ Record(Event("click", "modalClose", "none", "closeModal"))

\* click on the overlay: on the backdrop itself or on content nested in it
ModalClick(target) ==
    /\ SetDom(OnModalClick(Dom, target))
    /\ Record(Event("click", target, "none",
                    IF IsBackdropTarget(target) THEN "closeModal" ELSE "none"))

\* keydown on an element that is no portfolio entry
DocumentKeydown(key) ==
    /\ SetDom(OnDocumentKeydown(Dom, key))
    /\ Record(Event("keydown", "document", key, KeydownCall(Dom, FALSE, key)))

\* the user moves focus (Tab, pointer) to a focusable element
Focus(element) ==
    /\ activeElement # element
    /\ SetDom([Dom EXCEPT !.activeElement = element])
    /\ Record(Event("focus", element, "none", "none"))

Next ==
    \/ \E item \in EntryTitles : ItemClick(item)
    \/ \E item \in EntryTitles, key \in Keys : ItemKeydown(item, key)
    \/ CloseClick
    \/ \E target \in {"modal", "modalContent"} : ModalClick(target)
    \/ \E key \in Keys : DocumentKeydown(key)
    \/ \E element \in EntryTitles \cup {"modalClose", "body"}
                         \cup {FieldElements[f] : f \in DOMAIN formFields} :
          Focus(element)

Init == ModalInit /\ EmailIdle /\ RequiredIdle /\ FormIdle /\ NavInit

Spec == Init /\ [][Next]_vars

(***************************************************************************)
(* validateField on one field of any kind, with any value, whose group is  *)
(* in any state.                                                           *)
(***************************************************************************)
FieldInit ==
    /\ ModalInit
    /\ EmailIdle /\ RequiredIdle
    /\ NavInit
    /\ formFields \in [{1} -> FieldKinds]
    /\ fieldValue \in [{1} -> FormValues]
    /\ groupState \in [{1} -> GroupStates]
    /\ formEvent = NoFormEvent

FieldNext ==
    \/ Blur(1)
    \/ \E value \in FormValues : SetValue(1, value)

FieldSpec == FieldInit /\ [][FieldNext]_vars

(***************************************************************************)
(* Properties of validateField.                                            *)
(***************************************************************************)
\* empty or made of whitespace only
IsBlank(value) == \A i \in 1..Len(value) : IsWhitespace(value[i])

HasErrorMarker(group) == "error" \in group.classList

\* validateField has just returned for field 1
FieldValidated == formEvent.type = "blur" /\ formEvent.field = 1

\* C12: for any required field (of any type, including email) whose value
\* is empty or whitespace-only, validateField returns false, marks the group
\* with the error marker and sets its message to "This field is required".
RequiredBlankIsRejected ==
    (FieldValidated /\ formFields[1].required /\ IsBlank(fieldValue[1]))
        => /\ formEvent.valid = FALSE
           /\ HasErrorMarker(groupState[1])
           /\ groupState[1].message = "This field is required"

\* a required email field holding whitespace only got the required message
RequiredEmailBlankReached ==
    /\ FieldValidated
    /\ formFields[1] = [required |-> TRUE, type |-> "email"]
    /\ fieldValue[1] = <<" ", "\t">>
    /\ formEvent.valid = FALSE
    /\ groupState[1].message = "This field is required"

\* C13: for any email-typed field (required or not) whose value is non-blank
\* and fails validateEmail, validateField returns false, marks the group
\* with the error marker and sets its message to "Please enter a valid email
\* address".
InvalidEmailIsRejected ==
    (/\ FieldValidated
     /\ formFields[1].type = "email"
     /\ ~IsBlank(fieldValue[1])
     /\ ~validateEmail(fieldValue[1]))
        => /\ formEvent.valid = FALSE
           /\ HasErrorMarker(groupState[1])
           /\ groupState[1].message = "Please enter a valid email address"

\* an optional email field holding an address after a blank was rejected
OptionalEmailInvalidReached ==
    /\ FieldValidated
    /\ formFields[1] = [required |-> FALSE, type |-> "email"]
    /\ fieldValue[1] = <<" ", "a", "@", "a", ".", "a">>
    /\ formEvent.valid = FALSE
    /\ groupState[1].message = "Please enter a valid email address"

\* C14: for any non-required field with blank value, including an
\* email-typed one, validateField returns true and leaves the group with no
\* error marker and an empty message.
OptionalBlankIsValid ==
    (FieldValidated /\ ~formFields[1].required /\ IsBlank(fieldValue[1]))
        => /\ formEvent.valid = TRUE
           /\ ~HasErrorMarker(groupState[1])
           /\ groupState[1].message = ""

\* an optional email field holding one blank was accepted
OptionalEmailBlankReached ==
    /\ FieldValidated
    /\ formFields[1] = [required |-> FALSE, type |-> "email"]
    /\ fieldValue[1] = <<" ">>
    /\ formEvent.valid = TRUE
    /\ groupState[1] = PristineGroup

\* C16: validateField first clears any previously shown error of the
\* field's group, so when it returns true the group has no error marker and
\* an empty message even if an earlier validation had marked it.
SuccessClearsStaleError ==
    (FieldValidated /\ formEvent.valid = TRUE)
        => /\ ~HasErrorMarker(groupState[1])
           /\ groupState[1].message = ""

\* a field whose group showed an error was validated again and passed
StaleErrorClearedReached ==
    /\ FieldValidated
    /\ formEvent.errorBefore
    /\ formEvent.valid = TRUE
    /\ formFields[1].required
    /\ groupState[1] = PristineGroup

\* C17: validateField's return value and the resulting error state of the
\* group depend only on the field's current value, its required flag and
\* its type, never on the error state or value seen by an earlier call;
\* calling it twice on an unchanged field gives the same result and state
\* as calling it once.
ValidationDependsOnFieldOnly ==
    [][(formEvent'.type = "blur" /\ formEvent'.field = 1)
          => LET fresh == validateField(formFields[1], fieldValue[1], PristineGroup)
             IN  /\ formEvent'.valid = fresh.valid
                 /\ groupState'[1] = fresh.group
                 /\ (formEvent.type = "blur" /\ formEvent.field = 1)
                       => /\ formEvent'.valid = formEvent.valid
                          /\ groupState' = groupState]_vars

\* a field was validated with its group already showing an error, and the
\* call showed the error again
RevalidatedReached ==
    /\ FieldValidated
    /\ formEvent.errorBefore
    /\ formEvent.valid = FALSE
    /\ formFields[1] = [required |-> TRUE, type |-> "textarea"]
    /\ fieldValue[1] = <<>>
    /\ groupState[1] = showError(PristineGroup, RequiredMessage)

(***************************************************************************)
(* The contact form: MaxFields fields of any kinds, driven by its events.  *)
(***************************************************************************)
MaxFields == 2

\* what the user types into a field
TypedValues ==
    {<<>>, <<"a", "@", "a">>, <<"a", "@", "a", ".", "a">>}

AnyErrorShown == \E f \in DOMAIN groupState : "error" \in groupState[f].classList

Input_Revalidates(f, value) ==
    /\ f \in DOMAIN formFields
    /\ fieldValue' = [fieldValue EXCEPT ![f] = value]
    /\ groupState' = [groupState EXCEPT ![f] =
                         validateField(formFields[f], value, @).group]
    /\ formEvent' = FormEvent("input", f, TRUE, "error" \in groupState[f].classList)
    /\ UNCHANGED <<formFields, modalVars, emailVars, requiredVars, navVars>>

\* an input event on a field whose value is then value (the user's edit, or
\* an event dispatched with the value as it was): the input listener runs
Input(f, value) ==
    /\ f \in DOMAIN formFields
    /\ fieldValue' = [fieldValue EXCEPT ![f] = value]
    /\ groupState' = [groupState EXCEPT ![f] =
                         IF "error" \in @.classList THEN clearError(@) ELSE @]
    /\ formEvent' = FormEvent("input", f, TRUE, "error" \in groupState[f].classList)
    /\ UNCHANGED <<formFields, modalVars, emailVars, requiredVars, navVars>>

\* a message a direct caller passes to showError: one of the caller's own
CallerMessages == {"x"}

\* the exported showError(formGroup, message) called on a field's group
\* (FormNext has a caller that passes the first field's group)
ShowErrorCall(f, message) ==
    /\ f \in DOMAIN formFields
    /\ groupState' = [groupState EXCEPT ![f] = showError(@, message)]
    /\ formEvent' = FormEvent("showError", f, TRUE, FALSE)
    /\ UNCHANGED <<formFields, fieldValue, modalVars, emailVars, requiredVars, navVars>>

\* the exported clearError(formGroup) called on a field's group
ClearErrorCall(f) ==
    /\ f \in DOMAIN formFields
    /\ groupState' = [groupState EXCEPT ![f] = clearError(@)]
    /\ formEvent' = FormEvent("clearError", f, TRUE, FALSE)
    /\ UNCHANGED <<formFields, fieldValue, modalVars, emailVars, requiredVars, navVars>>

\* validateForm(form) called on the contact form
ValidateFormCall ==
    /\ formFields # <<>>
    /\ LET r == validateForm(formFields, fieldValue, groupState) IN
          /\ groupState' = r.groups
          /\ formEvent' = FormEvent("validateForm", 0, r.valid, AnyErrorShown)
    /\ UNCHANGED <<formFields, fieldValue, modalVars, emailVars, requiredVars, navVars>>

\* a submit event on the form, after its listener ran: event.preventDefault()
\* is the listener's first statement
SubmitFormEvent(valid, errorBefore) ==
    [type |-> "submit", field |-> 0, valid |-> valid,
     errorBefore |-> errorBefore, defaultPrevented |-> TRUE]

Submit_NoReset ==
    /\ formFields # <<>>
    /\ LET r == validateForm(formFields, fieldValue, groupState) IN
          /\ fieldValue' = fieldValue
          /\ groupState' = r.groups
          /\ formEvent' = SubmitFormEvent(r.valid, AnyErrorShown)
    /\ UNCHANGED <<formFields, modalVars, emailVars, requiredVars, navVars>>

\* submit on the contact form: validateForm, then on success form.reset()
\* and clearError on every group
Submit ==
    /\ formFields # <<>>
    /\ LET r == validateForm(formFields, fieldValue, groupState) IN
          /\ IF r.valid
             THEN /\ fieldValue' = [f \in DOMAIN fieldValue |-> <<>>]
                  /\ groupState' = [f \in DOMAIN groupState |-> clearError(r.groups[f])]
             ELSE /\ fieldValue' = fieldValue
                  /\ groupState' = r.groups
          /\ formEvent' = SubmitFormEvent(r.valid, AnyErrorShown)
    /\ UNCHANGED <<formFields, modalVars, emailVars, requiredVars, navVars>>

\* the page as loaded: empty fields, no error shown
FormInit ==
    /\ ModalInit
    /\ EmailIdle /\ RequiredIdle
    /\ NavInit
    /\ formFields \in [1..MaxFields -> FieldKinds]
    /\ fieldValue = [f \in 1..MaxFields |-> <<>>]
    /\ groupState = [f \in 1..MaxFields |-> PristineGroup]
    /\ formEvent = NoFormEvent

FormNext ==
    \/ \E f \in 1..MaxFields : Blur(f)
    \/ \E f \in 1..MaxFields, value \in TypedValues : Input(f, value)
    \/ \E message \in CallerMessages : ShowErrorCall(1, message)
    \/ ClearErrorCall(1)
    \/ ValidateFormCall
    \/ Submit

FormSpec == FormInit /\ [][FormNext]_vars

\* C15: validateForm returns true if and only if validateField returns true
\* for every required field and every email-typed field of the form, and it
\* is not short-circuited: after it returns, every checked field's group
\* shows exactly the error state validateField alone gives it, regardless of
\* field order.
FormValidIffEveryFieldValid ==
    [][formEvent'.type = "validateForm"
          => LET checked == {f \in DOMAIN formFields :
                                formFields[f].required \/ formFields[f].type = "email"}
                 alone(f) == validateField(formFields[f], fieldValue[f], groupState[f])
             IN  /\ formEvent'.valid = (\A f \in checked : alone(f).valid)
                 /\ \A f \in checked : groupState'[f] = alone(f).group]_vars

\* validateForm marked two invalid fields at once, the first with the
\* required message and the second with the email message
BothFieldsMarkedReached ==
    /\ formEvent.type = "validateForm"
    /\ formEvent.valid = FALSE
    /\ ~formEvent.errorBefore
    /\ groupState[1] = showError(PristineGroup, RequiredMessage)
    /\ groupState[2] = showError(PristineGroup, EmailMessage)

(***************************************************************************)
(* Navigation events (src/public/scripts/hero.test.js, lines 69-174).      *)
(***************************************************************************)
\* String(isExpanded), as setAttribute stores it
BooleanToString_AlwaysTrue(b) == "true"

BooleanToString(b) == IF b THEN "true" ELSE "false"

\* the id requestAnimationFrame returns: one no live handle equals
FreshFrameId ==
    CHOOSE id \in 1..(Cardinality(pendingFrames) + 2) :
        id \notin pendingFrames /\ id # scrollTimeout

\* click on .nav-toggle
NavToggleClick ==
    /\ navMenuClassList' =
          IF "active" \in navMenuClassList
          THEN navMenuClassList \ {"active"}
          ELSE navMenuClassList \cup {"active"}
    /\ ariaExpanded' = BooleanToString("active" \in navMenuClassList')
    /\ navEvent' = NavEvent("toggle", "nav-toggle")
    /\ UNCHANGED <<sections, activeLinks, scrollY, scrollRequest, scrollTimeout, pendingFrames>>
    /\ UNCHANGED <<modalVars, emailVars, requiredVars, formVars>>

\* the second click listener of a nav link: the request it leaves
ScrollRequestAfterClick(link) ==
    IF HrefStartsWithHash(link) /\ TargetSections(link) # {}
    THEN LET targetSection == sections[CHOOSE k \in TargetSections(link) :
                                          \A n \in TargetSections(link) : k <= n]
         IN  ScrollTo(targetSection.offsetTop - NavbarHeight)
    ELSE scrollRequest

NavLinkClick_ClosesModal(link) ==
    /\ navMenuClassList' = navMenuClassList \ {"active"}
    /\ ariaExpanded' = "false"
    /\ scrollRequest' = ScrollRequestAfterClick(link)
    /\ navEvent' = LinkClickEvent(link, HrefStartsWithHash(link))
    /\ modalClassList' = modalClassList \ {"active"}
    /\ UNCHANGED <<sections, activeLinks, scrollY, scrollTimeout, pendingFrames>>
    /\ UNCHANGED <<modalImage, modalTitle, modalDescription, modalDetails,
                   bodyOverflow, activeElement, lastEvent, prevEvent>>
    /\ UNCHANGED <<emailVars, requiredVars, formVars>>

\* click on a .nav-link, both listeners.  The first closes the menu.  The
\* second, for an href that starts with '#', prevents the default action and,
\* when the section exists, calls window.scrollTo({top: offsetTop -
\* navbarHeight, behavior: 'smooth'}); the scroll itself arrives as later
\* scroll events.
NavLinkClick(link) ==
    /\ navMenuClassList' = navMenuClassList \ {"active"}
    /\ ariaExpanded' = "false"
    /\ scrollRequest' = ScrollRequestAfterClick(link)
    /\ navEvent' = LinkClickEvent(link, HrefStartsWithHash(link))
    /\ UNCHANGED <<sections, activeLinks, scrollY, scrollTimeout, pendingFrames>>
    /\ UNCHANGED <<modalVars, emailVars, requiredVars, formVars>>

\* the request after a scroll event at scrollPosition: the scroll asked for
\* is over once the window is at the requested position
RequestAfterScroll(scrollPosition) ==
    IF scrollRequest.pending /\ scrollPosition = ClampedTop(scrollRequest.top)
    THEN NoScrollRequest
    ELSE scrollRequest

ScrollEvent_NoCancel(scrollPosition) ==
    /\ scrollY' = scrollPosition
    /\ scrollTimeout' = FreshFrameId
    /\ pendingFrames' = pendingFrames \cup {FreshFrameId}
    /\ navEvent' = ScrollNavEvent(FALSE)
    /\ scrollRequest' = RequestAfterScroll(scrollPosition)
    /\ UNCHANGED <<sections, navMenuClassList, ariaExpanded, activeLinks>>
    /\ UNCHANGED <<modalVars, emailVars, requiredVars, formVars>>

\* scroll event with the window at scrollPosition (the user scrolling, or a
\* step of a requested smooth scroll): the pending callback is cancelled and
\* a new one requested
ScrollEvent(scrollPosition) ==
    /\ scrollY' = scrollPosition
    /\ scrollTimeout' = FreshFrameId
    /\ pendingFrames' =
          (IF scrollTimeout # 0 THEN pendingFrames \ {scrollTimeout} ELSE pendingFrames)
             \cup {FreshFrameId}
    /\ navEvent' = ScrollNavEvent(scrollTimeout \in pendingFrames)
    /\ scrollRequest' = RequestAfterScroll(scrollPosition)
    /\ UNCHANGED <<sections, navMenuClassList, ariaExpanded, activeLinks>>
    /\ UNCHANGED <<modalVars, emailVars, requiredVars, formVars>>

\* the smooth scroll asked for by window.scrollTo reaches its position: a
\* scroll event there, or none (no listener runs) when the window is at that
\* position already
SmoothScrollArrive ==
    /\ scrollRequest.pending
    /\ IF scrollY = ClampedTop(scrollRequest.top)
       THEN /\ scrollRequest' = NoScrollRequest
            /\ navEvent' = NavEvent("none", "window")
            /\ UNCHANGED <<sections, navMenuClassList, ariaExpanded, activeLinks,
                           scrollY, scrollTimeout, pendingFrames>>
            /\ UNCHANGED <<modalVars, emailVars, requiredVars, formVars>>
       ELSE ScrollEvent(ClampedTop(scrollRequest.top))

\* an animation frame: a pending callback runs highlightActiveSection
AnimationFrame(id) ==
    /\ id \in pendingFrames
    /\ pendingFrames' = pendingFrames \ {id}
    /\ activeLinks' = highlightActiveSection(scrollY, activeLinks)
    /\ navEvent' = NavEvent("frame", "window")
    /\ UNCHANGED <<sections, navMenuClassList, ariaExpanded, scrollY, scrollRequest, scrollTimeout>>
    /\ UNCHANGED <<modalVars, emailVars, requiredVars, formVars>>

(***************************************************************************)
(* The whole page: the overlay, a contact form with one required email     *)
(* field, and the navigation, with their events interleaved.               *)
(***************************************************************************)
PageInit ==
    /\ ModalInit
    /\ EmailIdle /\ RequiredIdle
    /\ NavInit
    /\ formFields = <<[required |-> TRUE, type |-> "email"]>>
    /\ fieldValue = <<<<>>>>
    /\ groupState = <<PristineGroup>>
    /\ formEvent = NoFormEvent

PageNext ==
    \/ \E element \in {FieldElements[1], "body"} : Focus(element)
    \/ ItemClick("Project One")
    \/ CloseClick
    \/ DocumentKeydown("Escape")
    \/ Blur(1)
    \/ \E value \in {<<>>, <<"a", "@", "a", ".", "a">>} : Input(1, value)
    \/ Submit
    \/ NavToggleClick
    \/ NavLinkClick("about")
    \/ \E scrollPosition \in {0, 1000} : ScrollEvent(scrollPosition)
    \/ SmoothScrollArrive
    \/ \E id \in pendingFrames : AnimationFrame(id)

PageSpec == PageInit /\ [][PageNext]_vars

\* C11: open and close are the only mutators of the overlay's active flag
\* and of the page scroll-suppression flag: no form event (blur, input,
\* submit) and no navigation event (menu toggle, nav-link click,
\* scroll/highlight) changes either of them.  A step that dispatches no
\* overlay event leaves both flags alone, and a step that changes a flag
\* is an event whose listener called open or close (the blur listener that
\* open's focus() call runs on a focused form field belongs to that step).
OnlyOpenCloseMutateFlags ==
    [][LET flagsChange ==
               \/ ("active" \in modalClassList') # ("active" \in modalClassList)
               \/ bodyOverflow' # bodyOverflow
           overlayEvent == <<lastEvent', prevEvent'>> # <<lastEvent, prevEvent>>
       IN  /\ ~overlayEvent => ~flagsChange
           /\ flagsChange =>
                 lastEvent'.call \in {"openPortfolioModal", "closeModal"}]_vars

\* the overlay was opened by a click while the form field had focus: the
\* same event validated the field and showed its error, and the form was
\* submitted afterwards with the overlay still open
FormEventWhileOpenReached ==
    /\ "active" \in modalClassList
    /\ bodyOverflow = "hidden"
    /\ formEvent.type = "submit"
    /\ "error" \in groupState[1].classList
    /\ prevEvent.type = "focus" /\ prevEvent.target = FieldElements[1]
    /\ lastEvent.call = "openPortfolioModal"

\* one click opened the overlay and ran the focused field's blur listener
OpenedWithFieldFocused ==
    /\ "active" \in modalClassList
    /\ activeElement = "modalClose"
    /\ prevEvent.type = "focus" /\ prevEvent.target = FieldElements[1]
    /\ lastEvent.call = "openPortfolioModal"
    /\ formEvent.type = "blur"
    /\ groupState[1] = showError(PristineGroup, RequiredMessage)

(***************************************************************************)
(* validateRequired on its own (src/unnamed/part_003, lines 18-20): the    *)
(* function is called once with any string over ordinary and whitespace    *)
(* characters.                                                             *)
(***************************************************************************)
\* an ordinary character, space, tab, newline, no-break space and em space
RequiredChars == {"a", " ", "\t", "\n", "U+00A0", "U+2003"}

RequiredStrings == UNION {[1..k -> RequiredChars] : k \in 0..MaxLen}

RequiredInit ==
    /\ ModalInit
    /\ EmailIdle
    /\ FormIdle
    /\ NavInit
    /\ requiredValue \in RequiredStrings
    /\ requiredResult = NotReturned

ValidateRequiredCall ==
    /\ ~requiredResult.returned
    /\ requiredResult' = Returned(validateRequired(requiredValue))
    /\ UNCHANGED <<requiredValue, modalVars, emailVars, formVars, navVars>>

RequiredNext == ValidateRequiredCall

RequiredSpec == RequiredInit /\ [][RequiredNext]_vars

\* positions of s that hold a character other than whitespace
ContentPositions(s) == {i \in 1..Len(s) : ~IsWhitespace(s[i])}

\* s without its leading and trailing whitespace: what lies between the
\* first and the last character that is not whitespace
Stripped(s) ==
    IF ContentPositions(s) = {}
    THEN <<>>
    ELSE LET first == CHOOSE i \in ContentPositions(s) :
                          \A j \in ContentPositions(s) : i <= j
             last == CHOOSE i \in ContentPositions(s) :
                         \A j \in ContentPositions(s) : j <= i
         IN  SubSeq(s, first, last)

\* C21: validateRequired(s) is true exactly when s with its leading and
\* trailing whitespace removed has length greater than 0; it is false for
\* the empty string and for every whitespace-only string.
RequiredIffStrippedNonEmpty ==
    requiredResult.returned =>
        /\ requiredResult.value = (Len(Stripped(requiredValue)) > 0)
        /\ (\A i \in 1..Len(requiredValue) : IsWhitespace(requiredValue[i]))
              => requiredResult.value = FALSE

\* content surrounded by spaces, a tab and a newline was accepted
PaddedContentAccepted ==
    /\ requiredValue = <<" ", "\t", "a", " ", "a", "\n">>
    /\ requiredResult = Returned(TRUE)

(***************************************************************************)
(* The navigation on its own (src/public/scripts/hero.test.js, lines       *)
(* 72-174): any page layout, and any sequence of menu toggles, nav-link    *)
(* clicks, scroll events and animation frames.                             *)
(***************************************************************************)
\* the values window.scrollY takes: the top of the page, both sides of the
\* top threshold, positions inside the sections and one below the last
ScrollPositions == {0, 50, 99, 100, 300, 700, 1500, 2300, 3100}

NavPageInit ==
    /\ ModalInit
    /\ EmailIdle
    /\ RequiredIdle
    /\ FormIdle
    /\ sections \in Layouts
    /\ navMenuClassList = {"nav-menu"}
    /\ ariaExpanded = "false"
    /\ activeLinks = highlightActiveSection(0, {})
    /\ scrollY = 0
    /\ scrollRequest = NoScrollRequest
    /\ scrollTimeout = 0
    /\ pendingFrames = {}
    /\ navEvent = NavEvent("none", "none")

NavNext ==
    \/ NavToggleClick
    \/ \E link \in NavLinks : NavLinkClick(link)
    \/ \E scrollPosition \in ScrollPositions : ScrollEvent(scrollPosition)
    \/ SmoothScrollArrive
    \/ \E id \in pendingFrames : AnimationFrame(id)

NavSpec == NavPageInit /\ [][NavNext]_vars

\* the sections whose range [offsetTop - navbarHeight - 100, that +
\* offsetHeight) contains the position
SectionsAt(scrollPosition) ==
    {k \in DOMAIN sections :
        /\ scrollPosition >= sections[k].offsetTop - NavbarHeight - HighlightLead
        /\ scrollPosition < sections[k].offsetTop - NavbarHeight - HighlightLead
                               + sections[k].offsetHeight}

\* highlightActiveSection has just run (at the position scrollY)
HighlightRan == navEvent.type = "frame"

\* C22: at any point in time, under any sequence of scroll/highlight runs,
\* nav-link clicks and menu toggles, at most one navigation link carries the
\* "active" indicator.
AtMostOneActiveLink == Cardinality(activeLinks) <= 1

\* the highlight moved from the home link to the portfolio link, and a
\* nav link was clicked afterwards
PortfolioLinkActiveReached ==
    /\ activeLinks = {"portfolio"}
    /\ navEvent = LinkClickEvent("about", TRUE)

\* C23 as stated: after highlightActiveSection runs with the scroll position
\* inside a section's range, exactly one navigation link is active and it is
\* the link of that section.
HighlightFollowsSection ==
    HighlightRan =>
        \A k \in SectionsAt(scrollY) : activeLinks = {sections[k].id}

\* C23, amended: after highlightActiveSection runs with the scroll position
\* inside a section's range and not below 100, exactly one navigation link
\* is active and it is the link of that section; below 100 the home link is
\* the active one, whichever section's range contains the position.
HighlightFollowsSectionBelowTop ==
    HighlightRan =>
        \A k \in SectionsAt(scrollY) :
            activeLinks = IF scrollY < TopThreshold
                          THEN {"home"}
                          ELSE {sections[k].id}

\* the highlight ran at a position inside the third section's range, past
\* the first 100 pixels of the range
PortfolioSectionHighlighted ==
    /\ HighlightRan
    /\ sections = Sections
    /\ scrollY = 1500
    /\ SectionsAt(scrollY) = {3}
    /\ activeLinks = {"portfolio"}

\* C24: after highlightActiveSection runs with the scroll position below
\* 100, the home link is active and no other navigation link is, whatever
\* section ranges contain that position and whatever was active before.
TopOfPageHighlightsHome ==
    (HighlightRan /\ scrollY < TopThreshold) => activeLinks = {"home"}

\* the highlight ran below 100 at a position inside the second section's
\* range (the first section is a short one)
TopInsideSecondSectionReached ==
    /\ HighlightRan
    /\ scrollY < TopThreshold
    /\ SectionsAt(scrollY) = {2}
    /\ activeLinks = {"home"}

\* the navigation menu is open
MenuOpen == "active" \in navMenuClassList

\* C29: after any sequence of menu-toggle clicks and nav-link clicks, the
\* toggle button's aria-expanded attribute is "true" exactly when the
\* navigation menu has the active class.
AriaExpandedMatchesMenu == (ariaExpanded = "true") <=> MenuOpen

\* C29: each toggle click flips the menu's open state and every nav-link
\* click leaves the menu closed.
ToggleFlipsLinkCloses ==
    [][/\ navEvent'.type = "toggle" => (MenuOpen' <=> ~MenuOpen)
       /\ navEvent'.type = "click" => ~MenuOpen']_vars

\* C29: aria-expanded mirrors the menu's active class in every state, each
\* toggle click flips the menu and each nav-link click leaves it closed.
MenuStateConsistent == []AriaExpandedMatchesMenu /\ ToggleFlipsLinkCloses

\* the menu was opened by the toggle
MenuOpenedReached ==
    /\ MenuOpen
    /\ ariaExpanded = "true"
    /\ navEvent.type = "toggle"

\* C30: at most one highlight callback is pending at any time.
AtMostOnePendingFrame == Cardinality(pendingFrames) <= 1

\* C30: each scroll event cancels the callback still pending from an earlier
\* scroll event before requesting a new one: after a scroll event the only
\* pending callback is the one just requested.
ScrollLeavesOneCallback ==
    navEvent.type = "scroll" => pendingFrames = {scrollTimeout}

\* C30: the callback that runs is the only run of highlightActiveSection for
\* the burst of scroll events before it (nothing is left pending), and it
\* uses the latest scroll position.
FrameRunsOnceWithLatestPosition ==
    [][navEvent'.type = "frame" =>
          /\ pendingFrames' = {}
          /\ activeLinks' = highlightActiveSection(scrollY', activeLinks)]_vars

\* C30: scroll handling is coalesced: at most one highlight callback is
\* pending at any time, a scroll event leaves only the callback it requested
\* pending, and a burst of scroll events with no frame in between results in
\* one run of highlightActiveSection, at the latest scroll position.
ScrollCoalesced ==
    /\ [](AtMostOnePendingFrame /\ ScrollLeavesOneCallback)
    /\ FrameRunsOnceWithLatestPosition

\* a second scroll event of a burst cancelled the pending callback of the
\* first and requested its own
BurstCancelledPendingReached ==
    /\ navEvent.type = "scroll"
    /\ navEvent.cancelled
    /\ scrollY = 2300
    /\ pendingFrames = {scrollTimeout}

(***************************************************************************)
(* Focus after the overlay is closed (portfolio.js, lines 61-62, 101-110). *)
(***************************************************************************)
\* C25: after the overlay has been opened from a portfolio entry and is then
\* closed (by close control, backdrop click or Escape), keyboard focus is
\* returned to the entry that opened the overlay.
CloseReturnsFocusToOpener ==
    (OpensFound(prevEvent) /\ lastEvent.call = "closeModal")
        => activeElement = prevEvent.target

(***************************************************************************)
(* The contact form under its three event listeners (src/unnamed/part_003, *)
(* lines 94-137): any layout of MaxFields fields, and any sequence of      *)
(* blur, input and submit events.                                          *)
(***************************************************************************)
ContactFormNext ==
    \/ \E f \in 1..MaxFields : Blur(f)
    \/ \E f \in 1..MaxFields, value \in TypedValues : Input(f, value)
    \/ Submit

ContactFormSpec == FormInit /\ [][ContactFormNext]_vars

\* the fields validateForm checks
CheckedFields ==
    {f \in DOMAIN formFields : formFields[f].required \/ formFields[f].type = "email"}

\* C26: on every submit event the default submission is prevented; if
\* validateForm returns true the form's field values are reset and every
\* field group's error marker and message are cleared; if it returns false
\* no field value is changed and the errors set by validateForm stay
\* displayed.
SubmitResetsOnlyWhenValid ==
    [][formEvent'.type = "submit" =>
          LET alone(f) == validateField(formFields[f], fieldValue[f], groupState[f])
              valid == \A f \in CheckedFields : alone(f).valid
          IN  /\ formEvent'.defaultPrevented
              /\ formEvent'.valid = valid
              /\ valid =>
                    /\ \A f \in DOMAIN fieldValue : fieldValue'[f] = <<>>
                    /\ \A f \in DOMAIN groupState :
                          /\ "error" \notin groupState'[f].classList
                          /\ groupState'[f].message = ""
              /\ ~valid =>
                    /\ fieldValue' = fieldValue
                    /\ \A f \in CheckedFields : groupState'[f] = alone(f).group
                    /\ \E f \in CheckedFields :
                          "error" \in groupState'[f].classList]_vars

\* a form whose first field is required was submitted with valid values: the
\* values are gone and no error is shown
ValidSubmitResetReached ==
    /\ formEvent.type = "submit"
    /\ formEvent.valid
    /\ formFields[1].required
    /\ formFields[2] = [required |-> TRUE, type |-> "email"]
    /\ \A f \in DOMAIN fieldValue : fieldValue[f] = <<>>
    /\ ~AnyErrorShown

\* the group of field f shows an error
ShowsError(f) == "error" \in groupState[f].classList

\* C27: an input event on a field whose group shows an error clears that
\* group's error marker and message without re-validating, whether or not
\* the new value is valid; the error reappears only on the next blur of that
\* field or the next submit, and an input event on a field whose group shows
\* no error changes nothing.
InputClearsErrorWithoutValidating ==
    [][/\ formEvent'.type = "input" =>
             LET f == formEvent'.field IN
             /\ "error" \notin groupState'[f].classList
             /\ groupState'[f].message = ""
             /\ ~ShowsError(f) => groupState'[f] = groupState[f]
             /\ \A g \in DOMAIN groupState \ {f} : groupState'[g] = groupState[g]
       /\ \A f \in DOMAIN groupState :
             (~ShowsError(f) /\ "error" \in groupState'[f].classList)
                => \/ formEvent'.type = "blur" /\ formEvent'.field = f
                   \/ formEvent'.type = "submit"]_vars

\* an email field whose group showed an error received a value that is no
\* valid address: the error is gone all the same
InvalidInputClearedErrorReached ==
    /\ formEvent.type = "input"
    /\ formEvent.errorBefore
    /\ formFields[formEvent.field].type = "email"
    /\ fieldValue[formEvent.field] = <<"a", "@", "a">>
    /\ groupState[formEvent.field] = PristineGroup

\* C28: in every state reachable by any sequence of blur, input and submit
\* events, each field group has the error marker exactly when its message
\* slot is non-empty, and the message is always one of "", "This field is
\* required" or "Please enter a valid email address".
MarkerIffMessage ==
    \A f \in DOMAIN groupState :
        /\ ("error" \in groupState[f].classList) <=> (groupState[f].message # "")
        /\ groupState[f].message \in {"", RequiredMessage, EmailMessage}

\* one group shows the required message and the other the email message
BothMessagesShownReached ==
    /\ groupState[1] = showError(PristineGroup, RequiredMessage)
    /\ groupState[2] = showError(PristineGroup, EmailMessage)
    /\ formEvent.type = "blur"

=============================================================================
